---- MODULE Spec2Model ----
(***************************************************************************)
(* The plugin loader of hangupsbot (src/hangupsbot/plugins/__init__.py):   *)
(* the registration tracker, the registration helpers offered to plugins   *)
(* and load_user_plugins / load.                                           *)
(*                                                                         *)
(* Python values are modelled as follows.                                  *)
(*  - a list is a sequence, a set / frozenset a set, a dict a function;    *)
(*  - the `tags` argument of a registration is a record [kind, items]:     *)
(*    kind "None" (absent), "str" (one tag string, kept as its one item)   *)
(*    or "list"; an item of a list is a tag string or a list of tag        *)
(*    strings, [isList, tags];                                             *)
(*  - a value that may be None is a record with an isNone field;           *)
(*  - list(set(x)) yields the elements of x once each in an order Python   *)
(*    does not fix: every order is a possible outcome;                     *)
(*  - a dict that is referenced from two places is one object: the         *)
(*    entries of tracker.list that are the live self._current dict are     *)
(*    marked live and read through _current (see HistoryList).             *)
(***************************************************************************)
EXTENDS Integers, Sequences, FiniteSets, TLC

\* ------------------------------------------------------------------ bounds
\* plugins selected for one run of load_user_plugins
MaxPlugins == 2
\* registration calls the code of one plugin makes during its load (LoadSpec)
MaxCalls == 2
\* registration calls the code of one plugin makes during its load (Spec)
MaxRunCalls == 1
\* entry points (_initialise, _initialize) one modelled plugin defines
MaxEntries == 1
\* tracker operations applied in TrackerSpec
MaxOps == 3
\* plugins retrieve_all_plugins returns (SelectorSpec)
MaxDiscovered == 3
\* fragments of the `plugins` configuration option (SelectorSpec)
MaxFragments == 2

\* ------------------------------------------------------------------ values
Range(s) == {s[i] : i \in DOMAIN s}

IsUnique(s) == \A i, j \in DOMAIN s : s[i] = s[j] => i = j

\* list(set(...)) over the elements S: the lists that hold each element once
ListOfSet(S) == {l \in [1..Cardinality(S) -> S] : Range(l) = S}

StrItem(s) == [isList |-> FALSE, tags |-> <<s>>]
ListItem(q) == [isList |-> TRUE, tags |-> q]

NoTags == [kind |-> "None", items |-> <<>>]
StrTags(s) == [kind |-> "str", items |-> <<StrItem(s)>>]
ListTags(q) == [kind |-> "list", items |-> q]

\* Python truthiness of the tags argument: None and [] are false
Truthy(tags) == tags.kind = "str" \/ (tags.kind = "list" /\ tags.items # <<>>)

\* "{}".format(command): the replacement field, when the template has one,
\* is replaced by the command name
Format(template, command) ==
    CASE template = "execute-{}" -> "execute-" \o command
      [] template = "run-{}" -> "run-" \o command
      [] OTHER -> template

\* ----------------------------------------------------------------- tracker
VARIABLES
    config,        \* bot.get_config_option: [autoregister]
    list,          \* tracker.list, see HistoryList
    _current,      \* tracker._current
    argobj,        \* TrackerSpec: the caller's tags object as the last registration left it
    registered,    \* command.register calls received by the dispatcher
    tags_flushed,  \* command.register_tags calls received by the dispatcher
    bot_handlers,  \* the host's handler registry
    bot_shared,    \* the host's shared-object registry
    last,          \* the last tracker operation, its arguments and the tag-sets before it
    supplied,      \* TrackerSpec: <<name, tag>> for the tags the registrations of this scope came with
    ops            \* operations applied so far (TrackerSpec)

\* ------------------------------------------------------------------ loader
VARIABLES
    plugin_list,         \* load_user_plugins: the selected plugins, in order
    idx,                 \* load_user_plugins: plugins the for loop has taken
    pc,                  \* where the load of the current plugin stands
    module,              \* the plugin being loaded (its dotted name, by component)
    visited,             \* load: position of the pass-1 loop in the sorted members
    candidate_commands,  \* load: candidate_commands (the names)
    available_commands,  \* load: available_commands
    expected,            \* load: the signature of the entry point being called
    attempt,             \* load: the call shape in progress
    k,                   \* load: position of the pass-2 loop
    calls,               \* registration calls the plugin's code has made in this load
    entries,             \* entry points the pass-1 loop has met in this load
    attempts,            \* the plugins load() was called for, in call order
    outcome,             \* how the load of each plugin ended
    failed,              \* plugins whose import or entry point raised
    admin_calls,         \* <<plugin, name>> the plugin registered through register_admin_command
    user_calls,          \* <<plugin, name>> the plugin registered through register_user_command
    entry_log,           \* the entry-point calls that returned in this load
    tried                \* the calls of the entry point attempted in this load, in order

\* ---------------------------------------------------------------- selector
VARIABLES
    discovered,             \* what retrieve_all_plugins returned
    all_plugins,            \* get_configured_plugins: all_plugins, the list plugins_excluded also names
    config_plugins,         \* get_configured_plugins: config_plugins
    plugins_included,       \* get_configured_plugins: plugins_included
    plugin_name_ambiguous,  \* get_configured_plugins: plugin_name_ambiguous
    plugin_name_not_found,  \* get_configured_plugins: plugin_name_not_found
    taken                   \* get_configured_plugins: fragments the for loop has taken

selector_vars == <<discovered, all_plugins, config_plugins, plugins_included,
                   plugin_name_ambiguous, plugin_name_not_found, taken>>
tracker_vars == <<config, list, _current, argobj, last, supplied, ops>>
host_vars == <<registered, tags_flushed, bot_handlers, bot_shared>>
local_vars == <<visited, candidate_commands, available_commands, expected, attempt, k>>
loader_vars == <<plugin_list, idx, pc, module, calls, entries, attempts, outcome,
                 failed, admin_calls, user_calls, entry_log, tried>>
vars == <<tracker_vars, host_vars, local_vars, loader_vars, selector_vars>>

NoneAll == [isNone |-> TRUE, names |-> <<>>]
SomeAll(l) == [isNone |-> FALSE, names |-> l]

\* the dict created by tracker.reset
EmptyCurrent ==
    [commands |-> [admin |-> <<>>, user |-> <<>>, all |-> NoneAll,
                   tagged |-> <<>>],
     handlers |-> <<>>,
     shared |-> <<>>,
     metadata |-> <<>>]

\* `last` before any operation
NoCall ==
    [op |-> "none", type |-> "", names |-> <<>>, tags |-> NoTags,
     sameobj |-> FALSE, repeat |-> FALSE, again |-> FALSE, before |-> <<>>]

\* tracker.list as Python sees it: a live entry is the _current dict itself
HistoryList ==
    [i \in DOMAIN list |-> IF list[i].live THEN _current ELSE list[i].scope]

\* self._current = {...}: a new dict; the entries of tracker.list that were
\* the old dict keep the old dict's contents
FreezeList ==
    [i \in DOMAIN list |->
        IF list[i].live THEN [live |-> FALSE, scope |-> _current] ELSE list[i]]

\* lines 66-68
AutoRegister == IF config.autoregister = "None" THEN "True" ELSE config.autoregister

IsTrue(v) == v # "False"

\* lines 84-87
TagTemplate(v) == IF v = "True" THEN "execute-{}" ELSE v

\* line 93: frozenset(item if isinstance(item, list) else [item])
TagSetOf(item) == IF item.isList THEN Range(item.tags) ELSE {item.tags[1]}

add_tagsets_replace(existing, tagsets) ==
    IF tagsets # existing THEN tagsets ELSE existing

\* lines 96-97: if tagsets > existing: existing = existing | tagsets
add_tagsets(existing, tagsets) ==
    IF existing \subseteq tagsets /\ existing # tagsets
    THEN existing \cup tagsets
    ELSE existing

\* lines 82-93 the way section 4.3 words them: the synthesized tag is put
\* into every supplied tag-set
base_of_into_every(tags, autoreg, command) ==
    IF IsTrue(autoreg)
    THEN IF Truthy(tags)
         THEN [i \in DOMAIN tags.items |->
                  ListItem(tags.items[i].tags \o <<Format(TagTemplate(autoreg), command)>>)]
         ELSE <<StrItem(Format(TagTemplate(autoreg), command))>>
    ELSE tags.items

\* lines 82-91: base = tags; if not base: base = []; base += [synthesized]
base_of(tags, autoreg, command) ==
    IF IsTrue(autoreg)
    THEN (IF Truthy(tags) THEN tags.items ELSE <<>>)
             \o <<StrItem(Format(TagTemplate(autoreg), command))>>
    ELSE tags.items

RECURSIVE tags_loop(_, _, _, _)
\* lines 78-98: the loop over command_names. `tags` is the list object the
\* loop works on: base += [...] extends it in place when base is that list,
\* so the next command starts from the extended list.
tags_loop(tagged, command_names, tags, autoreg) ==
    IF command_names = <<>>
    THEN [tagged |-> tagged, tags |-> tags]
    ELSE LET command == Head(command_names)
             t0 == IF command \in DOMAIN tagged
                   THEN tagged
                   ELSE tagged @@ (command :> {})
             base == base_of(tags, autoreg, command)
             tagsets == {TagSetOf(base[i]) : i \in DOMAIN base}
             t1 == [t0 EXCEPT ![command] = add_tagsets(@, tagsets)]
             tags1 == IF IsTrue(autoreg) /\ Truthy(tags)
                      THEN [tags EXCEPT !.items = base]
                      ELSE tags
         IN  tags_loop(t1, Tail(command_names), tags1, autoreg)

\* tracker.register_tags, lines 65-98: the new tagged dict and the caller's
\* tags object after the call (a str is copied into a new list at line 72,
\* a list is worked on itself)
register_tags(tagged, command_names, tags) ==
    IF ~Truthy(tags) /\ ~IsTrue(AutoRegister)
    THEN [tagged |-> tagged, tags |-> tags]
    ELSE LET local == IF tags.kind = "str" THEN ListTags(tags.items) ELSE tags
             r == tags_loop(tagged, command_names, local, AutoRegister)
         IN  [tagged |-> r.tagged,
              tags |-> IF tags.kind = "list" THEN r.tags ELSE tags]

\* lines 60-61: extend, then list(set(...))
extended(names, command_names) == ListOfSet(Range(names \o command_names))

\* tracker.register_command, lines 58-63
register_command(type, command_names, tags) ==
    \E l \in extended(_current.commands[type], command_names) :
        _current' =
            [_current EXCEPT
                !.commands[type] = l,
                !.commands.tagged =
                    register_tags(_current.commands.tagged, command_names, tags).tagged]

\* lines 45-47 without the set
all_view_concat(admin, user) == {admin \o user}

\* lines 45-47: list(set(admin + user))
all_view(admin, user) == ListOfSet(Range(admin \o user))

\* tracker.current, lines 44-48, as the new value of the dict
current(l) == [_current EXCEPT !.commands.all = SomeAll(l)]

start_without_reset(metadata) ==
    /\ _current' = [_current EXCEPT !.metadata = metadata]
    /\ list' = list

\* tracker.start, lines 40-42 (with reset, lines 27-38)
start(metadata) ==
    /\ _current' = [EmptyCurrent EXCEPT !.metadata = metadata]
    /\ list' = FreezeList

\* lines 54-56: one command.register_tags call per tagged command name
flush(by, tagged) ==
    {[by |-> by, name |-> c, tagsets |-> tagged[c]] : c \in DOMAIN tagged}

\* tracker.end, lines 50-56; `by` is the module whose load calls it
end(by) ==
    \E l \in all_view(_current.commands.admin, _current.commands.user) :
        /\ _current' = current(l)
        /\ list' = Append(list, [live |-> TRUE, scope |-> EmptyCurrent])
        /\ tags_flushed' = tags_flushed \cup flush(by, _current.commands.tagged)

\* tracker.register_handler, lines 100-101
tracker_register_handler(function, type, priority) ==
    _current' = [_current EXCEPT !.handlers = Append(@, <<function, type, priority>>)]

\* tracker.register_shared, lines 103-104
tracker_register_shared(id, objectref, forgiving) ==
    _current' = [_current EXCEPT !.shared = Append(@, <<id, objectref, forgiving>>)]

\* ------------------------------------------------------- helpers, lines 113-133

\* a command_names argument: a list, or one name that is not a list
NameList(q) == [isList |-> TRUE, names |-> q]
OneName(n) == [isList |-> FALSE, names |-> <<n>>]

\* lines 115-116 and 121-122: if not isinstance(command_names, list)
as_list(command_names) ==
    IF command_names.isList THEN command_names.names ELSE <<command_names.names[1]>>

\* register_user_command, lines 113-117
register_user_command(command_names, tags) ==
    register_command("user", as_list(command_names), tags)

register_admin_command_as_user(command_names, tags) ==
    register_command("user", as_list(command_names), tags)

\* register_admin_command, lines 119-123
register_admin_command(command_names, tags) ==
    register_command("admin", as_list(command_names), tags)

\* bot._handlers.register_handler: the host's registry takes the handler and
\* records it in the tracking scope
host_register_handler(function, type, priority) ==
    /\ bot_handlers' = Append(bot_handlers, <<function, type, priority>>)
    /\ tracker_register_handler(function, type, priority)

\* bot.register_shared: the host's registry takes the object and records it
\* in the tracking scope
host_register_shared(id, objectref, forgiving) ==
    /\ bot_shared' = Append(bot_shared, <<id, objectref, forgiving>>)
    /\ tracker_register_shared(id, objectref, forgiving)

\* register_handler, lines 125-128
register_handler(function, type, priority) ==
    host_register_handler(function, type, priority)

\* register_shared, lines 130-133
register_shared(id, objectref, forgiving) ==
    host_register_shared(id, objectref, forgiving)

\* ----------------------------------------------------------- plugin loader

\* the dotted name of the i-th discovered plugin, by component
PluginAt(i) ==
    IF i % 2 = 1 THEN <<"p" \o ToString(i)>> ELSE <<"sub", "sub_p" \o ToString(i)>>

Plugins == {PluginAt(i) : i \in 1..MaxPlugins}

\* line 241: "plugins.{}".format(module)
ModulePath(m) == <<"plugins">> \o m

\* line 249: module_path.split(".")[-1]
ModuleName(module_path) == module_path[Len(module_path)]

\* line 251
Metadata(module_path) == <<ModuleName(module_path), module_path>>

\* getmembers returns the functions of a module sorted by name: the names a
\* modelled plugin can define, in that order
MemberOrder == <<"_h", "_initialise", "_initialize", "c1", "c2">>

EntryNames == {"_initialise", "_initialize"}

IsPrivate(name) == name \in {"_h", "_initialise", "_initialize"}

\* the signatures of the modelled entry points: the parameter names and how
\* many of them have no default
Sig(params, required) == [params |-> params, required |-> required]

Signatures ==
    {Sig(<<>>, 0), Sig(<<"bot">>, 1), Sig(<<"handlers", "bot">>, 2),
     Sig(<<"handlers">>, 1), Sig(<<"handlers", "bot">>, 1)}

\* a call with n positional arguments binds, or raises TypeError
Binds(sig, n) == sig.required <= n /\ n <= Len(sig.params)

\* what the modelled entry points return: None, or a list of names
NoReturn == [isList |-> FALSE, names |-> <<>>]
ListReturn(q) == [isList |-> TRUE, names |-> q]
Returns == {NoReturn, ListReturn(<<>>), ListReturn(<<"c1", "_h">>)}

IsFalse == [isFalse |-> TRUE, names |-> <<>>]
Available(q) == [isFalse |-> FALSE, names |-> q]

\* the plugins of LoadSpec: what they register, their entry points and
\* what these return
PluginNameArgs == {OneName("c1"), NameList(<<"c2", "_h">>)}
PluginTagArgs == {NoTags, StrTags("A")}
PluginWorld ==
    [names |-> PluginNameArgs, tags |-> PluginTagArgs, signatures |-> Signatures,
     returns |-> Returns, calls |-> MaxCalls]

\* the plugins of Spec
RunWorld ==
    [names |-> {NameList(<<"c1">>)}, tags |-> {NoTags},
     signatures |-> {Sig(<<"bot">>, 1), Sig(<<"handlers", "bot">>, 1)},
     returns |-> {NoReturn}, calls |-> MaxRunCalls]

InitWith(selected, autoregister) ==
    /\ config \in [autoregister : autoregister]
    /\ list = <<>>
    /\ _current = EmptyCurrent
    /\ argobj = NoTags
    /\ registered = <<>>
    /\ tags_flushed = {}
    /\ bot_handlers = <<>>
    /\ bot_shared = <<>>
    /\ last = NoCall
    /\ supplied = {}
    /\ ops = 0
    /\ plugin_list = selected
    /\ idx = 0
    /\ pc = "Idle"
    /\ module = <<>>
    /\ visited = 0
    /\ candidate_commands = <<>>
    /\ available_commands = IsFalse
    /\ expected = Sig(<<>>, 0)
    /\ attempt = "none"
    /\ k = 0
    /\ calls = 0
    /\ entries = 0
    /\ attempts = <<>>
    /\ outcome = [p \in Plugins |-> "NotLoaded"]
    /\ failed = {}
    /\ admin_calls = {}
    /\ user_calls = {}
    /\ entry_log = <<>>
    /\ tried = <<>>
    /\ discovered = <<>>
    /\ all_plugins = <<>>
    /\ config_plugins = [isNone |-> TRUE, names |-> <<>>]
    /\ plugins_included = <<>>
    /\ plugin_name_ambiguous = <<>>
    /\ plugin_name_not_found = <<>>
    /\ taken = 0

\* load_user_plugins, lines 240-242, and load, lines 248-251: the for loop
\* takes the next plugin and load opens its tracking scope
LoadNext ==
    /\ pc \in {"Idle", "Done", "Aborted"}
    /\ idx < Len(plugin_list)
    /\ idx' = idx + 1
    /\ module' = plugin_list[idx + 1]
    /\ attempts' = Append(attempts, plugin_list[idx + 1])
    /\ start(Metadata(ModulePath(plugin_list[idx + 1])))
    /\ pc' = "Importing"
    /\ visited' = 0
    /\ candidate_commands' = <<>>
    /\ available_commands' = IsFalse
    /\ expected' = Sig(<<>>, 0)
    /\ attempt' = "none"
    /\ k' = 0
    /\ calls' = 0
    /\ entries' = 0
    /\ entry_log' = <<>>
    /\ tried' = <<>>
    /\ UNCHANGED <<config, argobj, last, supplied, ops, host_vars, plugin_list, outcome,
                   failed, admin_calls, user_calls>>
    /\ UNCHANGED selector_vars

\* load_user_plugins: the for loop is exhausted
Finish ==
    /\ pc \in {"Idle", "Done", "Aborted"}
    /\ idx = Len(plugin_list)
    /\ pc' = "Finished"
    /\ UNCHANGED <<tracker_vars, host_vars, local_vars, plugin_list, idx, module,
                   calls, entries, attempts, outcome, failed, admin_calls, user_calls, entry_log, tried>>
    /\ UNCHANGED selector_vars

\* the plugin's code is running: its module body, or its entry point
InPluginCode == pc \in {"Importing", "InEntry"}

PluginCall(w) ==
    /\ InPluginCode
    /\ calls < w.calls
    /\ calls' = calls + 1
    /\ UNCHANGED <<config, list, argobj, last, supplied, ops, local_vars, plugin_list, idx, pc,
                   module, entries, attempts, outcome, failed, entry_log, tried>>
    /\ UNCHANGED selector_vars

\* the plugin calls plugins.register_user_command
PluginRegisterUser(w) ==
    /\ PluginCall(w)
    /\ \E names \in w.names, tags \in w.tags :
          /\ register_user_command(names, tags)
          /\ user_calls' = user_calls \cup {<<module, n>> : n \in Range(as_list(names))}
    /\ UNCHANGED <<host_vars, admin_calls>>

\* the plugin calls plugins.register_admin_command
PluginRegisterAdmin(w) ==
    /\ PluginCall(w)
    /\ \E names \in w.names, tags \in w.tags :
          /\ register_admin_command(names, tags)
          /\ admin_calls' = admin_calls \cup {<<module, n>> : n \in Range(as_list(names))}
    /\ UNCHANGED <<host_vars, user_calls>>

\* the plugin calls plugins.register_handler
PluginRegisterHandler(w) ==
    /\ PluginCall(w)
    /\ register_handler(<<module, "h">>, "message", 50)
    /\ UNCHANGED <<registered, tags_flushed, bot_shared, admin_calls, user_calls>>

\* the plugin calls plugins.register_shared
PluginRegisterShared(w) ==
    /\ PluginCall(w)
    /\ register_shared("s", <<module, "o">>, TRUE)
    /\ UNCHANGED <<registered, tags_flushed, bot_handlers, admin_calls, user_calls>>

import_failed_goes_on == "Initializing"

import_failed_propagates == "Crashed"

\* line 257: return
import_failed == "Aborted"

\* lines 253-257: the import raises
ImportFail ==
    /\ pc = "Importing"
    /\ pc' = import_failed
    /\ failed' = failed \cup {module}
    /\ outcome' = [outcome EXCEPT ![module] = "Aborted"]
    /\ UNCHANGED <<tracker_vars, host_vars, local_vars, plugin_list, idx, module,
                   calls, entries, attempts, admin_calls, user_calls, entry_log, tried>>
    /\ UNCHANGED selector_vars

\* lines 254-267: the import returns
ImportOk ==
    /\ pc = "Importing"
    /\ pc' = "Initializing"
    /\ UNCHANGED <<tracker_vars, host_vars, local_vars, plugin_list, idx, module,
                   calls, entries, attempts, outcome, failed, admin_calls, user_calls, entry_log, tried>>
    /\ UNCHANGED selector_vars

\* one attempted call of the entry point: its shape and how it ended
Try(shape, result) == [shape |-> shape, result |-> result]

\* the last attempted call ends with `result`
Ended(result) == [tried EXCEPT ![Len(tried)].result = result]

first_attempt_by_count(sig) ==
    IF Len(sig.params) = 0 THEN "zero"
    ELSE IF Len(sig.params) = 1 THEN "bot"
    ELSE "two"

\* lines 280-292: the shape the entry point is first called with
first_attempt(sig) ==
    IF Len(sig.params) = 0 THEN "zero"
    ELSE IF Len(sig.params) = 1 /\ sig.params[1] = "bot" THEN "bot"
    ELSE "two"

\* the number of arguments of a call shape
Arity(shape) ==
    CASE shape = "zero" -> 0 [] shape = "bot" -> 1 [] shape = "two" -> 2 [] shape = "one" -> 1

init_failed_goes_on == "Reconciling"

\* line 310: return
init_failed == "Aborted"

\* lines 308-310: an exception leaves the try block of pass 1
Abort ==
    /\ pc' = init_failed
    /\ failed' = failed \cup {module}
    /\ outcome' = [outcome EXCEPT ![module] = "Aborted"]

\* lines 269-298: the pass-1 loop takes the next function of the module.
\* The members are sorted by name; which of the later names the module
\* defines is decided as the loop reaches them.
Visit(w) ==
    /\ pc = "Initializing"
    /\ \E i \in (visited + 1)..Len(MemberOrder) :
          LET function_name == MemberOrder[i] IN
          /\ function_name \in EntryNames => entries < MaxEntries
          /\ visited' = i
          /\ entries' = IF function_name \in EntryNames THEN entries + 1 ELSE entries
          /\ IF function_name \in EntryNames
             THEN \E sig \in w.signatures :
                    /\ expected' = sig
                    /\ UNCHANGED candidate_commands
                    /\ IF Binds(sig, Arity(first_attempt(sig)))
                       THEN /\ attempt' = first_attempt(sig)
                            /\ tried' = <<Try(first_attempt(sig), "running")>>
                            /\ pc' = "InEntry"
                            /\ UNCHANGED <<outcome, failed>>
                       ELSE \* the_function(bot._handlers, bot) raises TypeError
                            IF Binds(sig, Arity("one"))
                            THEN /\ attempt' = "one"
                                 /\ tried' = <<Try(first_attempt(sig), "TypeError"),
                                               Try("one", "running")>>
                                 /\ pc' = "InEntry"
                                 /\ UNCHANGED <<outcome, failed>>
                            ELSE /\ attempt' = "none"
                                 /\ tried' = <<Try(first_attempt(sig), "TypeError"),
                                               Try("one", "TypeError")>>
                                 /\ Abort
             ELSE /\ candidate_commands' =
                        IF IsPrivate(function_name)
                        THEN candidate_commands
                        ELSE Append(candidate_commands, function_name)
                  /\ UNCHANGED <<expected, attempt, pc, outcome, failed, tried>>
    /\ UNCHANGED <<tracker_vars, host_vars, available_commands, k, plugin_list, idx,
                   module, calls, attempts, admin_calls, user_calls, entry_log>>
    /\ UNCHANGED selector_vars

entry_result_as_returned(shape, ret) == ret

\* lines 281-292: _return, for a call of the given shape that returned ret
entry_result(shape, ret) ==
    IF shape \in {"zero", "bot"} THEN ListReturn(<<>>) ELSE ret

\* lines 281-294: the entry point returns
EntryReturn(w) ==
    /\ pc = "InEntry"
    /\ \E ret \in w.returns :
          LET _return == entry_result(attempt, ret)
          IN  /\ available_commands' =
                    IF _return.isList THEN Available(_return.names) ELSE available_commands
              /\ entry_log' = Append(entry_log, [shape |-> attempt, isList |-> ret.isList])
    /\ tried' = Ended("returned")
    /\ pc' = "Initializing"
    /\ attempt' = "none"
    /\ expected' = Sig(<<>>, 0)
    /\ UNCHANGED <<tracker_vars, host_vars, visited, candidate_commands, k,
                   plugin_list, idx, module, calls, entries, attempts, outcome, failed,
                   admin_calls, user_calls>>
    /\ UNCHANGED selector_vars

\* lines 287-292 and 308-310: the entry point raises. A TypeError out of the
\* two-argument call is answered by the one-argument call; every other
\* exception leaves pass 1.
EntryRaise ==
    /\ pc = "InEntry"
    /\ \E exception \in {"TypeError", "Exception"} :
          IF attempt = "two" /\ exception = "TypeError"
          THEN IF Binds(expected, Arity("one"))
               THEN /\ attempt' = "one"
                    /\ tried' = Append(Ended(exception), Try("one", "running"))
                    /\ UNCHANGED <<pc, outcome, failed>>
               ELSE /\ attempt' = "none"
                    /\ tried' = Append(Ended(exception), Try("one", "TypeError"))
                    /\ Abort
          ELSE /\ attempt' = "none"
               /\ tried' = Ended(exception)
               /\ Abort
    /\ UNCHANGED <<tracker_vars, host_vars, visited, candidate_commands,
                   available_commands, expected, k, plugin_list, idx, module, calls,
                   entries, attempts, admin_calls, user_calls, entry_log>>
    /\ UNCHANGED selector_vars

\* line 302: `available_commands is []` compares with a list made on the
\* spot, which no other object is
is_new_empty_list(x) == FALSE

\* lines 299-307: what the loader registers itself after the loop
implicit_names_explicit_only(available, candidates) ==
    IF available.isFalse THEN <<>> ELSE available.names

implicit_names_empty_as_all(available, candidates) ==
    IF available.isFalse \/ available.names = <<>> THEN candidates ELSE available.names

implicit_names(available, candidates) ==
    IF available.isFalse THEN candidates
    ELSE IF is_new_empty_list(available) THEN <<>>
    ELSE available.names

\* lines 299-307: the loop is over (the module has no further function)
FinishInit ==
    /\ pc = "Initializing"
    /\ IF available_commands.isFalse \/ ~is_new_empty_list(available_commands)
       THEN register_user_command(
                NameList(implicit_names(available_commands, candidate_commands)), NoTags)
       ELSE UNCHANGED _current
    /\ pc' = "Reconciling"
    /\ UNCHANGED <<config, list, argobj, last, supplied, ops, host_vars, local_vars, plugin_list, idx,
                   module, calls, entries, attempts, outcome, failed, admin_calls, user_calls, entry_log, tried>>
    /\ UNCHANGED selector_vars

\* line 318: plugin_tracking = tracking.current()
Reconcile ==
    /\ pc = "Reconciling"
    /\ \E l \in all_view(_current.commands.admin, _current.commands.user) :
          _current' = current(l)
    /\ pc' = "Committing"
    /\ k' = 1
    /\ UNCHANGED <<config, list, argobj, last, supplied, ops, host_vars, visited,
                   candidate_commands, available_commands, expected, attempt,
                   plugin_list, idx, module, calls, entries, attempts, outcome, failed,
                   admin_calls, user_calls, entry_log, tried>>
    /\ UNCHANGED selector_vars

\* lines 325-328
is_admin(function_name, explicit_admin_commands) ==
    function_name \in Range(explicit_admin_commands)

in_all_always(function_name, all_commands) == TRUE

\* line 324: if function_name in all_commands
in_all(function_name, all_commands) == function_name \in Range(all_commands)

\* lines 323-333: the pass-2 loop takes the next candidate
Commit ==
    /\ pc = "Committing"
    /\ k <= Len(candidate_commands)
    /\ LET function_name == candidate_commands[k]
           explicit_admin_commands == _current.commands.admin
           all_commands == _current.commands.all.names
       IN  registered' =
               IF in_all(function_name, all_commands)
               THEN Append(registered,
                           [function |-> <<module, function_name>>,
                            admin |-> is_admin(function_name, explicit_admin_commands),
                            final |-> TRUE])
               ELSE registered
    /\ k' = k + 1
    /\ UNCHANGED <<tracker_vars, tags_flushed, bot_handlers, bot_shared, visited,
                   candidate_commands, available_commands, expected, attempt,
                   loader_vars>>
    /\ UNCHANGED selector_vars

\* lines 335-340: the loop is over, tracking.end()
End ==
    /\ pc = "Committing"
    /\ k > Len(candidate_commands)
    /\ end(module)
    /\ pc' = "Done"
    /\ outcome' = [outcome EXCEPT ![module] = "Done"]
    /\ UNCHANGED <<config, argobj, last, supplied, ops, registered, bot_handlers, bot_shared,
                   local_vars, plugin_list, idx, module, calls, entries, attempts, failed,
                   admin_calls, user_calls, entry_log, tried>>
    /\ UNCHANGED selector_vars

\* a step of load_user_plugins with the plugins of world w
Step(w) ==
    \/ LoadNext
    \/ Finish
    \/ PluginRegisterUser(w)
    \/ PluginRegisterAdmin(w)
    \/ PluginRegisterHandler(w)
    \/ PluginRegisterShared(w)
    \/ ImportFail
    \/ ImportOk
    \/ Visit(w)
    \/ EntryReturn(w)
    \/ EntryRaise
    \/ FinishInit
    \/ Reconcile
    \/ Commit
    \/ End

\* a run of load_user_plugins over MaxPlugins selected plugins
Init == InitWith([i \in 1..MaxPlugins |-> PluginAt(i)], {"None"})

Next == Step(RunWorld)

Spec == Init /\ [][Next]_vars

\* load is sequential code: a step that can be taken is taken
FairSpec == Spec /\ WF_vars(Next)

\* the load of one plugin, over every modelled plugin
LoadInit == InitWith(<<PluginAt(1)>>, {"None", "False"})

LoadStep == Step(PluginWorld)

LoadSpec == LoadInit /\ [][LoadStep]_vars

\* ------------------------------------------------- get_configured_plugins

\* the dotted names retrieve_all_plugins can return: a module file, a
\* package and a module of that package that carries the package's name
DiscoveredNames == {<<"d">>, <<"y">>, <<"foo">>, <<"foo", "foo">>}

\* the fragments a configuration can name
Fragments == {<<"d">>, <<"foo">>, <<"foo", "foo">>, <<"zzz">>}

\* the lists of at most n elements of S
ListsUpTo(S, n) == UNION {[1..m -> S] : m \in 0..n}

\* bot.get_config_option('plugins'): None, or a list of fragments
NoPlugins == [isNone |-> TRUE, names |-> <<>>]
ConfiguredPlugins(q) == [isNone |-> FALSE, names |-> q]

\* line 193: plugins_excluded = all_plugins names the same list
plugins_excluded == all_plugins

\* line 203: "plugins." + found
FullFound(found) == <<"plugins">> \o found

\* lines 199 and 204: fullfound.endswith("." + configured), on dotted names
\* taken by component: the fragment is an end of the name and a dot, that
\* is a component, comes before it
EndsWith(fullfound, configured) ==
    /\ Len(configured) < Len(fullfound)
    /\ SubSeq(fullfound, Len(fullfound) - Len(configured) + 1, Len(fullfound))
          = configured

\* lines 201-205
matches_of(pool, configured) ==
    SelectSeq(pool, LAMBDA found : EndsWith(FullFound(found), configured))

on_matches_first_wins(num_matches) ==
    IF num_matches <= 0 THEN "not_found" ELSE "matched"

\* lines 208-217: the branch taken
on_matches(num_matches) ==
    IF num_matches <= 0 THEN "not_found"
    ELSE IF num_matches = 1 THEN "matched"
    ELSE "ambiguous"

remove_nothing(l, x) == l

\* line 214: list.remove(x) takes out the first element equal to x
remove(l, x) ==
    LET i == CHOOSE j \in DOMAIN l : l[j] = x /\ \A h \in 1..(j - 1) : l[h] # x
    IN  SubSeq(l, 1, i - 1) \o SubSeq(l, i + 1, Len(l))

\* what a run of load_user_plugins leaves alone while the plugins are selected
not_selecting ==
    <<tracker_vars, host_vars, local_vars, idx, module, calls, entries, attempts,
      outcome, failed, admin_calls, user_calls, entry_log, tried>>

\* load_user_plugins, line 238, entering get_configured_plugins: lines 181-182
SInit ==
    /\ discovered \in ListsUpTo(DiscoveredNames, MaxDiscovered)
    /\ all_plugins = discovered
    /\ config_plugins \in
          {NoPlugins} \cup {ConfiguredPlugins(q) : q \in ListsUpTo(Fragments, MaxFragments)}
    /\ plugins_included = <<>>
    /\ plugin_name_ambiguous = <<>>
    /\ plugin_name_not_found = <<>>
    /\ taken = 0
    /\ pc = "Selecting"
    /\ plugin_list = <<>>
    /\ config \in [autoregister : {"None"}]
    /\ list = <<>>
    /\ _current = EmptyCurrent
    /\ argobj = NoTags
    /\ registered = <<>>
    /\ tags_flushed = {}
    /\ bot_handlers = <<>>
    /\ bot_shared = <<>>
    /\ last = NoCall
    /\ supplied = {}
    /\ ops = 0
    /\ idx = 0
    /\ module = <<>>
    /\ visited = 0
    /\ candidate_commands = <<>>
    /\ available_commands = IsFalse
    /\ expected = Sig(<<>>, 0)
    /\ attempt = "none"
    /\ k = 0
    /\ calls = 0
    /\ entries = 0
    /\ attempts = <<>>
    /\ outcome = <<>>
    /\ failed = {}
    /\ admin_calls = {}
    /\ user_calls = {}
    /\ entry_log = <<>>
    /\ tried = <<>>

\* lines 184-186 and 230-232: the option is unset, every plugin is selected
SelectAll ==
    /\ pc = "Selecting"
    /\ config_plugins.isNone
    /\ plugin_list' = all_plugins
    /\ pc' = "Idle"
    /\ UNCHANGED <<selector_vars, not_selecting>>

\* lines 198-217: the for loop takes the next fragment
Select ==
    /\ pc = "Selecting"
    /\ ~config_plugins.isNone
    /\ taken < Len(config_plugins.names)
    /\ taken' = taken + 1
    /\ LET configured == config_plugins.names[taken + 1]
           matches == matches_of(plugins_excluded, configured)
           num_matches == Len(matches)
       IN  CASE on_matches(num_matches) = "not_found" ->
                  /\ plugin_name_not_found' = Append(plugin_name_not_found, configured)
                  /\ UNCHANGED <<plugins_included, all_plugins, plugin_name_ambiguous>>
             [] on_matches(num_matches) = "matched" ->
                  /\ plugins_included' = Append(plugins_included, matches[1])
                  /\ all_plugins' = remove(plugins_excluded, matches[1])
                  /\ UNCHANGED <<plugin_name_ambiguous, plugin_name_not_found>>
             [] on_matches(num_matches) = "ambiguous" ->
                  /\ plugin_name_ambiguous' = Append(plugin_name_ambiguous, configured)
                  /\ UNCHANGED <<plugins_included, all_plugins, plugin_name_not_found>>
    /\ UNCHANGED <<discovered, config_plugins, pc, plugin_list, not_selecting>>

\* lines 219-232: the loop is over, the included plugins are the selection
SelectReturn ==
    /\ pc = "Selecting"
    /\ ~config_plugins.isNone
    /\ taken = Len(config_plugins.names)
    /\ plugin_list' = plugins_included
    /\ pc' = "Idle"
    /\ UNCHANGED <<selector_vars, not_selecting>>

SNext ==
    \/ SelectAll
    \/ Select
    \/ SelectReturn

\* get_configured_plugins over every modelled discovery and configuration
SelectorSpec == SInit /\ [][SNext]_vars

\* -------------------------------------------------------- loader properties

RegisteredBy(p) == {i \in DOMAIN registered : registered[i].function[1] = p}

Registration(p, name, admin) ==
    [function |-> <<p, name>>, admin |-> admin, final |-> TRUE]

AfterInit == pc \in {"Reconciling", "Committing", "Done"}

\* C1: a plugin whose import raised, or whose entry point raised out of
\* pass 1, has no command registered with the dispatcher and no tag-sets
\* flushed to it.
C1_FailedPluginNotInDispatcher ==
    \A p \in failed :
        /\ RegisteredBy(p) = {}
        /\ \A f \in tags_flushed : f.by # p

C1_Witness ==
    /\ pc = "Finished"
    /\ plugin_list[1] \in failed
    /\ <<plugin_list[1], "c1">> \in admin_calls
    /\ RegisteredBy(plugin_list[2]) # {}
    /\ \E f \in tags_flushed : f.by = plugin_list[2]

\* C2: load is called for the selected plugins in their order, once each,
\* whatever fails; every load ends Done or Aborted and the run ends.
C2_EveryPluginLoadedOnce ==
    /\ [](/\ Len(attempts) <= Len(plugin_list)
          /\ attempts = SubSeq(plugin_list, 1, Len(attempts)))
    /\ <>[](/\ pc = "Finished"
            /\ attempts = plugin_list
            /\ \A p \in Range(plugin_list) : outcome[p] \in {"Done", "Aborted"})

C2_Witness ==
    /\ pc = "Finished"
    /\ attempts = plugin_list
    /\ outcome[plugin_list[1]] = "Aborted"
    /\ outcome[plugin_list[2]] = "Done"

\* C3 as claimed: no handler and no shared object of a plugin whose import
\* or entry point raised is in the host's registries.
C3_FailedRegistrationsDiscarded ==
    \A p \in failed :
        /\ \A i \in DOMAIN bot_handlers : bot_handlers[i][1][1] # p
        /\ \A i \in DOMAIN bot_shared : bot_shared[i][2][1] # p

\* C4: a command is registered with the dispatcher as admin exactly when
\* the plugin registered its name as admin during the load, and a candidate
\* registered as admin is committed as admin.
C4_AdminOverridesUser ==
    /\ \A i \in DOMAIN registered :
          registered[i].admin = (registered[i].function \in admin_calls)
    /\ pc = "Done"
          => \A n \in Range(candidate_commands) :
                <<module, n>> \in admin_calls
                    => Registration(module, n, TRUE) \in Range(registered)

C4_Witness ==
    /\ pc = "Done"
    /\ candidate_commands = <<"c1", "c2">>
    /\ <<module, "c1">> \in admin_calls \cap user_calls
    /\ available_commands.isFalse
    /\ Registration(module, "c1", TRUE) \in Range(registered)
    /\ Registration(module, "c2", FALSE) \in Range(registered)

NoExplicitCommands ==
    \A c \in admin_calls \cup user_calls : c[1] # module

\* C9: a plugin with no entry point and no registration of its own has each
\* of its public functions registered as a user command and committed with
\* admin = false.
C9_ImplicitFallback ==
    (pc = "Done" /\ entries = 0 /\ NoExplicitCommands)
        => /\ Range(_current.commands.user) = Range(candidate_commands)
           /\ _current.commands.admin = <<>>
           /\ {registered[i] : i \in RegisteredBy(module)}
                 = {Registration(module, n, FALSE) : n \in Range(candidate_commands)}

C9_Witness ==
    /\ pc = "Done" /\ entries = 0 /\ NoExplicitCommands
    /\ candidate_commands = <<"c1", "c2">>
    /\ Len(registered) = 2

NoListReturned == \A i \in DOMAIN entry_log : ~entry_log[i].isList

\* C10 as claimed: whatever the shape of the entry point, when it returned
\* no list every candidate is registered as a user command.
C10_NonListRegistersAll ==
    (AfterInit /\ entry_log # <<>> /\ NoListReturned)
        => Range(candidate_commands) \subseteq Range(_current.commands.user)

\* C10 amended: when the entry point of a legacy shape returned no list,
\* every candidate is registered as a user command; for an entry point of
\* the zero-parameter or host-only shape the loader registers no name of
\* its own, whatever the entry point returned.
C10_LegacyNonListRegistersAll ==
    AfterInit /\ entry_log # <<>>
        => /\ (NoListReturned /\ \A i \in DOMAIN entry_log :
                                     entry_log[i].shape \in {"two", "one"})
                 => Range(candidate_commands) \subseteq Range(_current.commands.user)
           /\ (\A i \in DOMAIN entry_log : entry_log[i].shape \in {"zero", "bot"})
                 => Range(_current.commands.user) = {c[2] : c \in user_calls}

C10_Witness ==
    /\ pc = "Done"
    /\ entry_log = <<[shape |-> "one", isList |-> FALSE]>>
    /\ NoExplicitCommands
    /\ candidate_commands = <<"c1", "c2">>
    /\ Range(_current.commands.user) = {"c1", "c2"}

\* C12: the entry point is first called with no argument when it has no
\* parameter, with the host alone when its one parameter is named bot, and
\* with (handler registry, host) otherwise; the call with the handler
\* registry alone is made only after the two-argument call raised a
\* TypeError, and no call follows it. The plugin is aborted exactly when the
\* last call made raised: any exception of a call that has no fallback, and
\* any exception but TypeError of the two-argument call.
C12_SignaturePrecedence ==
    /\ Len(tried) <= 2
    /\ Len(tried) = 2 => tried[1] = Try("two", "TypeError") /\ tried[2].shape = "one"
    /\ tried # <<>>
          => LET t == tried[Len(tried)] IN
             /\ (pc = "InEntry" \/ module \in failed)
                   => tried[1].shape =
                         IF expected.params = <<>> THEN "zero"
                         ELSE IF expected.params = <<"bot">> THEN "bot"
                         ELSE "two"
             /\ (t.result = "running") = (pc = "InEntry")
             /\ (t.result \in {"TypeError", "Exception"}) = (module \in failed)
             /\ ~(t = Try("two", "TypeError"))

C12_Witness ==
    /\ pc = "Done"
    /\ tried = <<Try("two", "TypeError"), Try("one", "returned")>>

\* the places of the pool whose plugin the fragment matches
MatchesIn(pool, configured) ==
    {i \in DOMAIN pool : EndsWith(FullFound(pool[i]), configured)}

\* C13: a fragment that matches more than one plugin of the pool is added
\* to the ambiguous names and changes neither the included plugins nor the
\* pool; a fragment that matches none is added to the names not found and
\* changes nothing else; and when the selection returns every fragment has
\* been taken and has had one of the three outcomes.
C13_AmbiguousIncludesNone ==
    /\ []((pc = "Idle" /\ ~config_plugins.isNone)
            => /\ taken = Len(config_plugins.names)
               /\ Len(plugins_included) + Len(plugin_name_ambiguous)
                     + Len(plugin_name_not_found) = taken)
    /\ [][taken' = taken + 1
            => LET configured == config_plugins.names[taken']
                   n == Cardinality(MatchesIn(plugins_excluded, configured))
               IN  /\ n > 1
                         => /\ plugin_name_ambiguous'
                                  = Append(plugin_name_ambiguous, configured)
                            /\ UNCHANGED <<plugins_included, all_plugins,
                                           plugin_name_not_found>>
                   /\ n = 0
                         => /\ plugin_name_not_found'
                                  = Append(plugin_name_not_found, configured)
                            /\ UNCHANGED <<plugins_included, all_plugins,
                                           plugin_name_ambiguous>>]_vars

C13_Witness ==
    /\ pc = "Idle"
    /\ discovered = <<<<"foo">>, <<"foo", "foo">>, <<"d">>>>
    /\ config_plugins = ConfiguredPlugins(<<<<"foo">>, <<"d">>>>)
    /\ plugin_name_ambiguous = <<<<"foo">>>>
    /\ plugin_list = <<<<"d">>>>
    /\ plugins_excluded = <<<<"foo">>, <<"foo", "foo">>>>

\* C14: while fragments are taken in their order, the included plugins and
\* the pool share no plugin and together are the discovered plugins, no
\* plugin is included twice, and a fragment whose only match among the
\* discovered plugins is already included is added to the names not found.
C14_ClaimedOnce ==
    /\ [](~config_plugins.isNone
            => /\ Range(plugins_included) \cap Range(plugins_excluded) = {}
               /\ Range(plugins_included) \cup Range(plugins_excluded) = Range(discovered)
               /\ Len(plugins_included) + Len(plugins_excluded) = Len(discovered)
               /\ IsUnique(plugins_included))
    /\ [][taken' = taken + 1
            => LET configured == config_plugins.names[taken']
                   m == MatchesIn(discovered, configured)
               IN  (Cardinality(m) = 1
                      /\ \A i \in m : discovered[i] \in Range(plugins_included))
                       => /\ plugin_name_not_found'
                                = Append(plugin_name_not_found, configured)
                          /\ UNCHANGED <<plugins_included, all_plugins>>]_vars

C14_Witness ==
    /\ pc = "Idle"
    /\ discovered = <<<<"d">>>>
    /\ config_plugins = ConfiguredPlugins(<<<<"d">>, <<"d">>>>)
    /\ plugin_list = <<<<"d">>>>
    /\ plugin_name_not_found = <<<<"d">>>>
    /\ plugins_excluded = <<>>

\* the state of section 4.4 a position of load belongs to: the call of the
\* entry point is part of Initializing
Phase(at) == IF at = "InEntry" THEN "Initializing" ELSE at

PhaseOrder ==
    {<<"Idle", "Importing">>, <<"Importing", "Initializing">>,
     <<"Initializing", "Reconciling">>, <<"Reconciling", "Committing">>,
     <<"Committing", "Done">>, <<"Importing", "Aborted">>,
     <<"Initializing", "Aborted">>, <<"Done", "Importing">>,
     <<"Aborted", "Importing">>, <<"Done", "Finished">>, <<"Aborted", "Finished">>}

\* the plugins whose load reached Done, in load order
DonePlugins == SelectSeq(attempts, LAMBDA p : outcome[p] = "Done")

\* C15: a load moves Importing -> Initializing -> Reconciling -> Committing
\* -> Done and is aborted only out of Importing or Initializing; the history
\* list holds one scope for each plugin that reached Done, in load order,
\* and none for a plugin that failed; an entry is added to it only by the
\* step from Committing to Done, when pass 2 is over, and the dispatcher
\* commands of a plugin that reached Done change no more.
C15_LoadStateMachine ==
    /\ []([i \in DOMAIN list |-> HistoryList[i].metadata]
            = [i \in DOMAIN DonePlugins |-> Metadata(ModulePath(DonePlugins[i]))])
    /\ [](\A i \in DOMAIN list :
              \A p \in failed : HistoryList[i].metadata # Metadata(ModulePath(p)))
    /\ [][/\ Phase(pc') # Phase(pc) => <<Phase(pc), Phase(pc')>> \in PhaseOrder
          /\ Len(list') # Len(list)
                => /\ pc = "Committing" /\ pc' = "Done"
                   /\ k > Len(candidate_commands)
                   /\ Len(list') = Len(list) + 1
          /\ \A p \in Plugins :
                outcome[p] = "Done" => RegisteredBy(p)' = RegisteredBy(p)]_vars

C15_Witness ==
    /\ pc = "Finished"
    /\ \A p \in Plugins : outcome[p] = "Done" /\ RegisteredBy(p) # {}
    /\ Len(list) = MaxPlugins
    /\ HistoryList[2].metadata = Metadata(ModulePath(plugin_list[2]))

\* the names the plugin p registered itself, through either helper
ExplicitNames(p) == {c[2] : c \in {x \in admin_calls \cup user_calls : x[1] = p}}

\* the names the dispatcher holds for the plugin p
CommittedNames(p) == {registered[i].function[2] : i \in RegisteredBy(p)}

AdminNames(p) == {c[2] : c \in {x \in admin_calls : x[1] = p}}

UserNames(p) == {c[2] : c \in {x \in user_calls : x[1] = p}}

\* the scope holds nothing but what the plugin p registered and what the
\* loader registered for p: names of p's own public functions, as user
\* commands
ScopeOf(scope, p, own) ==
    /\ scope.metadata = Metadata(ModulePath(p))
    /\ Range(scope.commands.admin) \subseteq AdminNames(p)
    /\ Range(scope.commands.user) \subseteq UserNames(p) \cup own
    /\ DOMAIN scope.commands.tagged \subseteq ExplicitNames(p) \cup own
    /\ \A i \in DOMAIN scope.handlers : scope.handlers[i][1][1] = p
    /\ \A i \in DOMAIN scope.shared : scope.shared[i][2][1] = p

\* C17: when the load of a plugin begins the scope holds its metadata and
\* nothing else; all through the load it holds only what this plugin and
\* the loader on its behalf registered; and what is committed as admin,
\* flushed or archived under a plugin was registered by or for that plugin,
\* whatever earlier plugins, aborted ones included, had registered.
C17_FreshScope ==
    /\ (pc = "Importing" /\ calls = 0)
          => _current = [EmptyCurrent EXCEPT !.metadata = Metadata(ModulePath(module))]
    /\ pc \notin {"Idle", "Selecting"}
          => ScopeOf(_current, module, Range(candidate_commands))
    /\ \A i \in DOMAIN registered :
          registered[i].admin => registered[i].function \in admin_calls
    /\ \A f \in tags_flushed :
          f.name \in ExplicitNames(f.by) \cup CommittedNames(f.by)
    /\ \A i \in DOMAIN list :
          ScopeOf(HistoryList[i], DonePlugins[i], CommittedNames(DonePlugins[i]))

C17_Witness ==
    /\ pc = "Done"
    /\ module = plugin_list[2]
    /\ plugin_list[1] \in failed
    /\ <<plugin_list[1], "c1">> \in admin_calls
    /\ ExplicitNames(module) = {}
    /\ _current.commands.admin = <<>>
    /\ Registration(module, "c1", FALSE) \in Range(registered)
    /\ Len(list) = 1

\* C16: every command.register call is made with final = true for a
\* candidate, never for a private name or an entry point; while pass 2 runs
\* the names registered for the plugin are the candidates taken so far that
\* are in the `all` list, and when the load is Done they are the candidates
\* that are in the `all` list, each registered once.
C16_CommittedAreCandidatesInAll ==
    /\ \A i \in DOMAIN registered :
          /\ registered[i].final
          /\ ~IsPrivate(registered[i].function[2])
          /\ registered[i].function[2] \notin EntryNames
          /\ registered[i].function[1] = module
                => registered[i].function[2] \in Range(candidate_commands)
    /\ pc = "Committing"
          => CommittedNames(module)
                = Range(SubSeq(candidate_commands, 1, k - 1))
                     \cap Range(_current.commands.all.names)
    /\ pc = "Done"
          => /\ CommittedNames(module)
                   = Range(candidate_commands) \cap Range(_current.commands.all.names)
             /\ Cardinality(RegisteredBy(module)) = Cardinality(CommittedNames(module))

C16_Witness ==
    /\ pc = "Done"
    /\ candidate_commands = <<"c1", "c2">>
    /\ Range(_current.commands.all.names) = {"c2", "_h"}
    /\ registered = <<Registration(module, "c2", FALSE)>>

\* C11: when the loader holds an empty list as the result of the entry
\* point, it adds no name of its own to the user commands, whatever public
\* functions the plugin has: the user commands are those the plugin
\* registered itself, and the committed commands are the candidates among
\* the names the plugin registered itself.
C11_ExplicitEmpty ==
    (AfterInit /\ entry_log # <<>> /\ available_commands = Available(<<>>))
        => /\ Range(_current.commands.user)
                 = {c[2] : c \in {x \in user_calls : x[1] = module}}
           /\ pc = "Done"
                 => CommittedNames(module)
                       = Range(candidate_commands) \cap ExplicitNames(module)

C11_Witness ==
    /\ pc = "Done"
    /\ entry_log = <<[shape |-> "two", isList |-> TRUE]>>
    /\ available_commands = Available(<<>>)
    /\ candidate_commands = <<"c1", "c2">>
    /\ admin_calls = {<<module, "c1">>}
    /\ user_calls = {}
    /\ registered = <<Registration(module, "c1", TRUE)>>

\* --------------------------------------------------- the tracker on its own
\* Registrations, current, start and end applied to the tracker in any order.

AutoRegisterValues == {"None", "False", "run-{}"}

TagArgs ==
    {NoTags, StrTags("A"), ListTags(<<>>), ListTags(<<StrItem("B")>>),
     ListTags(<<ListItem(<<"A", "B">>)>>)}

NameArgs == {<<"c1">>, <<"c1", "c2">>}

\* the record of a registration. It directly follows a register_tags call
\* with the same names and, `repeat`, tags equal to those passed before or,
\* `again`, the very tags object passed before
Call(op, type, names, tags, sameobj) ==
    [op |-> op, type |-> type, names |-> names, tags |-> tags, sameobj |-> sameobj,
     repeat |-> op = "register_tags" /\ last.op = "register_tags"
                  /\ last.names = names /\ last.tags = tags /\ ~sameobj,
     again |-> op = "register_tags" /\ last.op = "register_tags"
                  /\ last.names = names /\ sameobj,
     before |-> _current.commands.tagged]

Op(op) == [NoCall EXCEPT !.op = op]

\* the tag strings a tags argument holds
ExplicitTags(tags) == UNION {Range(tags.items[i].tags) : i \in DOMAIN tags.items}

\* the tags a registration of the names comes with
Supplied(names, tags) == Range(names) \X ExplicitTags(tags)

TInit ==
    /\ config \in [autoregister : AutoRegisterValues]
    /\ list = <<>>
    /\ _current = EmptyCurrent
    /\ argobj = NoTags
    /\ registered = <<>>
    /\ tags_flushed = {}
    /\ bot_handlers = <<>>
    /\ bot_shared = <<>>
    /\ last = NoCall
    /\ supplied = {}
    /\ ops = 0
    /\ plugin_list = <<>>
    /\ idx = 0
    /\ pc = "tracker"
    /\ module = <<>>
    /\ visited = 0
    /\ candidate_commands = <<>>
    /\ available_commands = [isFalse |-> TRUE, names |-> <<>>]
    /\ expected = [params |-> <<>>, required |-> 0]
    /\ attempt = "none"
    /\ k = 0
    /\ calls = 0
    /\ entries = 0
    /\ attempts = <<>>
    /\ outcome = <<>>
    /\ failed = {}
    /\ admin_calls = {}
    /\ user_calls = {}
    /\ entry_log = <<>>
    /\ tried = <<>>
    /\ discovered = <<>>
    /\ all_plugins = <<>>
    /\ config_plugins = [isNone |-> TRUE, names |-> <<>>]
    /\ plugins_included = <<>>
    /\ plugin_name_ambiguous = <<>>
    /\ plugin_name_not_found = <<>>
    /\ taken = 0

TStep ==
    /\ ops < MaxOps
    /\ ops' = ops + 1
    /\ UNCHANGED <<config, local_vars, loader_vars>>
    /\ UNCHANGED selector_vars

TStart ==
    /\ TStep
    /\ start(<<"p1", "plugins.p1">>)
    /\ last' = Op("start")
    /\ supplied' = {}
    /\ UNCHANGED <<argobj, host_vars>>

TRegisterCommand ==
    /\ TStep
    /\ \E type \in {"admin", "user"}, names \in NameArgs, tags \in TagArgs :
          /\ register_command(type, names, tags)
          /\ argobj' = register_tags(_current.commands.tagged, names, tags).tags
          /\ last' = Call("register_command", type, names, tags, FALSE)
          /\ supplied' = supplied \cup Supplied(names, tags)
    /\ UNCHANGED <<list, host_vars>>

\* the caller passes the tags object of its last registration again
TRegisterCommandSameTags ==
    /\ TStep
    /\ last.op \in {"register_command", "register_tags"}
    /\ \E type \in {"admin", "user"} :
          /\ register_command(type, last.names, argobj)
          /\ argobj' = register_tags(_current.commands.tagged, last.names, argobj).tags
          /\ last' = Call("register_command", type, last.names, argobj, TRUE)
          /\ supplied' = supplied \cup Supplied(last.names, argobj)
    /\ UNCHANGED <<list, host_vars>>

TRegisterTags ==
    /\ TStep
    /\ \E names \in NameArgs, tags \in TagArgs :
          LET r == register_tags(_current.commands.tagged, names, tags)
          IN  /\ _current' = [_current EXCEPT !.commands.tagged = r.tagged]
              /\ argobj' = r.tags
              /\ last' = Call("register_tags", "", names, tags, FALSE)
              /\ supplied' = supplied \cup Supplied(names, tags)
    /\ UNCHANGED <<list, host_vars>>

TRegisterTagsSameTags ==
    /\ TStep
    /\ last.op \in {"register_command", "register_tags"}
    /\ LET r == register_tags(_current.commands.tagged, last.names, argobj)
       IN  /\ _current' = [_current EXCEPT !.commands.tagged = r.tagged]
           /\ argobj' = r.tags
           /\ last' = Call("register_tags", "", last.names, argobj, TRUE)
           /\ supplied' = supplied \cup Supplied(last.names, argobj)
    /\ UNCHANGED <<list, host_vars>>

TRegisterHandler ==
    /\ TStep
    /\ tracker_register_handler(<<"p1", "h">>, "message", 50)
    /\ last' = Op("register_handler")
    /\ UNCHANGED <<list, argobj, supplied, host_vars>>

TRegisterShared ==
    /\ TStep
    /\ tracker_register_shared("s", <<"p1", "o">>, TRUE)
    /\ last' = Op("register_shared")
    /\ UNCHANGED <<list, argobj, supplied, host_vars>>

TCurrent ==
    /\ TStep
    /\ \E l \in all_view(_current.commands.admin, _current.commands.user) :
          _current' = current(l)
    /\ last' = Op("current")
    /\ UNCHANGED <<list, argobj, supplied, host_vars>>

TEnd ==
    /\ TStep
    /\ end(<<"p1">>)
    /\ last' = Op("end")
    /\ UNCHANGED <<argobj, supplied, registered, bot_handlers, bot_shared>>

TNext ==
    \/ TStart
    \/ TRegisterCommand
    \/ TRegisterCommandSameTags
    \/ TRegisterTags
    \/ TRegisterTagsSameTags
    \/ TRegisterHandler
    \/ TRegisterShared
    \/ TCurrent
    \/ TEnd

TrackerSpec == TInit /\ [][TNext]_vars

\* ------------------------------------------------------- tracker properties

\* the tag-sets of a command name, none when the name has no entry
TagsetsOf(tagged, c) == IF c \in DOMAIN tagged THEN tagged[c] ELSE {}

IsRegistration == last.op \in {"register_command", "register_tags"}

SynthesizedTag(c) == Format(TagTemplate(AutoRegister), c)

\* C5: a register_tags call that repeats the call before it, with the same
\* names and the same tags, leaves every tag-set collection as the first
\* call left it.
C5_RegisterTagsIdempotent ==
    (last.op = "register_tags" /\ (last.repeat \/ last.again))
        => _current.commands.tagged = last.before

\* the part of C5 that holds: the second call is given tags equal to those
\* the first call was given, in an object of their own
RegisterTagsIdempotentOnEqualTags ==
    (last.op = "register_tags" /\ last.repeat)
        => _current.commands.tagged = last.before

\* C6: within one scope no registration removes a tag-set: across every
\* registration the collection of each name contains what it held before.
C6_TagsetsGrow ==
    [][last'.op \in {"register_command", "register_tags"}
          => \A c \in DOMAIN _current.commands.tagged :
                /\ c \in DOMAIN _current'.commands.tagged
                /\ _current.commands.tagged[c] \subseteq _current'.commands.tagged[c]]_vars

C6_Witness ==
    /\ IsRegistration
    /\ TagsetsOf(last.before, "c1") # {}
    /\ TagsetsOf(last.before, "c1") # _current.commands.tagged["c1"]

\* the case of C7: auto-registration is on and the call came with tags
C7_Case == IsRegistration /\ IsTrue(AutoRegister) /\ Truthy(last.tags)

C18_NoTagLost ==
    last.op = "end"
        => \A nt \in supplied :
              /\ nt[1] \in DOMAIN _current.commands.tagged
              /\ [by |-> <<"p1">>, name |-> nt[1],
                  tagsets |-> _current.commands.tagged[nt[1]]] \in tags_flushed
              /\ \E ts \in _current.commands.tagged[nt[1]] : nt[2] \in ts

\* C19 as claimed: the tag-sets a registration adds for a name hold only
\* tags the call came with and the synthesized tag of that name, and the
\* caller's tags object is after the call what it was before.
C19_SynthesizedTagPerCommand ==
    IsRegistration
        => /\ \A c \in Range(last.names) :
                 \A ts \in TagsetsOf(_current.commands.tagged, c) \ TagsetsOf(last.before, c) :
                     ts \subseteq ExplicitTags(last.tags) \cup {SynthesizedTag(c)}
           /\ argobj = last.tags

\* C20 as claimed: no tracker operation changes what an entry of the
\* history list holds, and no two entries of the list are one object.
C20_ArchivedScopeFrozen ==
    [][/\ \A i \in DOMAIN list : HistoryList'[i] = HistoryList[i]
       /\ Cardinality({i \in DOMAIN list' : list'[i].live}) <= 1]_vars

\* C8: the `all` view current() computes holds every registered name once
\* and is the union of the admin and the user names.
C8_AllIsUnion ==
    last.op \in {"current", "end"}
        => /\ ~_current.commands.all.isNone
           /\ IsUnique(_current.commands.all.names)
           /\ Range(_current.commands.all.names)
                 = Range(_current.commands.admin) \cup Range(_current.commands.user)

C8_Witness ==
    /\ last.op = "current"
    /\ "c1" \in Range(_current.commands.admin) \cap Range(_current.commands.user)
    /\ "c2" \in Range(_current.commands.all.names)

====
